---- MODULE Spec2Model ----
(***************************************************************************)
(* ursadb: the request broker (NetworkService), its worker threads and the *)
(* command executor / lock planner (Daemon).                               *)
(*                                                                         *)
(* One Coordinator thread runs NetworkService::run; NUM_WORKERS worker     *)
(* threads run WorkerContext::operator().  Workers talk to the Coordinator *)
(* over a REQ socket, so each worker has at most one message outstanding   *)
(* in either direction.  Database, DatabaseSnapshot and DatabaseHandle are *)
(* not part of the two source files; they are modelled from the            *)
(* specification and marked as such in the model map.                      *)
(***************************************************************************)
EXTENDS Naturals, Integers, Sequences, FiniteSets, TLC

\* ------------------------------------------------------------------ bounds
NUM_WORKERS == 2
\* Requests accepted in one run; MaxBurst is the bound of SpecRouting.
MaxTasks == 2
MaxBurst == 3

Workers == 0 .. (NUM_WORKERS - 1)
Clients == {"c1", "c2", "c3"}
TaintTag == "t1"
ConfigKeyName == "workers"
ConfigValues == {0, 1}
InitialDatasets == {"ds1", "ds2"}
Iterators == {"it1"}
NewNames == <<"n1", "n2", "n3", "n4", "n5", "n6">>
\* Names that allocate_name("iterator") hands out, one per task.
IterNames == <<"i1", "i2", "i3", "i4", "i5", "i6">>
\* A key name that ConfigKey::parse rejects.
UnknownKeyName == "nokey"
EmptyName == ""

\* Parsed client commands (Command variant of Daemon.cpp); "bad" is a request
\* string that parse_command rejects.  A config_get with the name "" has no
\* keys; a select with the name "iterator" asks for an iterator.
Requests ==
    { [op |-> "bad", name |-> "", val |-> 0],
      [op |-> "config_get", name |-> ConfigKeyName, val |-> 0],
      [op |-> "config_get", name |-> UnknownKeyName, val |-> 0],
      [op |-> "config_get", name |-> "", val |-> 0],
      [op |-> "select", name |-> "", val |-> 0],
      [op |-> "select", name |-> "iterator", val |-> 0],
      [op |-> "index_from", name |-> "", val |-> 0],
      [op |-> "status", name |-> "", val |-> 0],
      [op |-> "topology", name |-> "", val |-> 0],
      [op |-> "ping", name |-> "", val |-> 0],
      [op |-> "config_set", name |-> ConfigKeyName, val |-> 1],
      [op |-> "taint_add", name |-> "ds1", val |-> 0],
      [op |-> "taint_remove", name |-> "ds1", val |-> 0],
      [op |-> "reindex", name |-> "ds1", val |-> 0],
      [op |-> "reindex", name |-> "ds2", val |-> 0],
      [op |-> "compact", name |-> "full", val |-> 0],
      [op |-> "iterator_pop", name |-> "it1", val |-> 0],
      [op |-> "drop", name |-> "ds1", val |-> 0],
      [op |-> "drop", name |-> "it1", val |-> 0],
      [op |-> "index", name |-> "", val |-> 0] }

NoReq == [op |-> "none", name |-> "", val |-> 0]
NoMsg == [type |-> "none"]
\* A Response is its variant and its payload, a set of <<name, number>>.
NoReply == [status |-> "none", val |-> {}]
NullTask == [id |-> 0, conn_id |-> "", changes |-> <<>>]

VARIABLES
    worker_queue,   \* NetworkService::worker_queue (std::queue of identities)
    task,           \* WorkerContext::task per worker (NullTask = nullptr)
    snap,           \* WorkerContext::snap per worker
    db,             \* Database: published datasets, iterators, taints,
                    \* config, and the retired artifacts
    files,          \* dataset and iterator artifacts present on disk
    last_task_id,   \* Database task id counter
    cpc,            \* Coordinator position in the loop of run()
    revents,        \* items[0].revents, items[1].revents of the last poll
    to_coord,       \* backend socket: message of worker w awaiting the Coordinator
    to_worker,      \* backend socket: message awaiting worker w
    frontend_in,    \* frontend socket: request of client c not yet read
    frontend_out,   \* frontend socket: reply delivered to client c
    wpc,            \* position of each worker thread
    address,        \* worker local: client address of the current request
    request,        \* worker local: current request
    client_waiting  \* clients that sent a request and have no reply yet

vars == << worker_queue, task, snap, db, files, last_task_id, cpc, revents,
           to_coord, to_worker, frontend_in, frontend_out, wpc, address,
           request, client_waiting >>

\* ------------------------------------------------------------ Database
\* Database::snapshot(): current datasets, iterators, config and live tasks,
\* empty lock record.
snapshot(d, tasks) ==
    [datasets |-> d.datasets, taints |-> d.taints, config |-> d.config,
     iterators |-> d.iterators, tasks |-> tasks,
     locked_datasets |-> {}, locked_iterators |-> {}]

\* std::to_string / parse of a config value carried by a ConfigChange.
ParseValue(s) == CHOOSE v \in 0 .. 9 : ToString(v) = s

\* One DBChange applied by Database::commit_task.  A Drop retires what it
\* names: a dataset, or an iterator (its explicit drop); the artifact stays
\* on disk until collect_garbage removes it.
ApplyChange(d, c) ==
    CASE c.type = "ConfigChange" ->
           [d EXCEPT !.config = ParseValue(c.param)]
      [] c.type = "ToggleTaint" ->
           IF c.obj \in d.datasets
             THEN [d EXCEPT !.taints =
                     IF <<c.obj, c.param>> \in d.taints
                       THEN d.taints \ {<<c.obj, c.param>>}
                       ELSE d.taints \cup {<<c.obj, c.param>>}]
             ELSE d
      [] c.type = "Drop" ->
           IF c.obj \in d.datasets
             THEN [d EXCEPT !.datasets = d.datasets \ {c.obj},
                            !.taints = {p \in d.taints : p[1] # c.obj},
                            !.retired = d.retired \cup {c.obj}]
           ELSE IF c.obj \in d.iterators
             THEN [d EXCEPT !.iterators = d.iterators \ {c.obj},
                            !.retired = d.retired \cup {c.obj}]
           ELSE d
      [] c.type = "NewDataset" ->
           [d EXCEPT !.datasets = d.datasets \cup {c.obj}]
      [] c.type = "NewIterator" ->
           [d EXCEPT !.iterators = d.iterators \cup {c.obj}]
      [] OTHER -> d

RECURSIVE ApplyChanges(_, _)
ApplyChanges(d, cs) ==
    IF cs = <<>> THEN d ELSE ApplyChanges(ApplyChange(d, Head(cs)), Tail(cs))

\* Database::commit_task: drains the task's DBChange list in order.
db_commit_task(d, t) == ApplyChanges(d, t.changes)

\* Database::collect_garbage(working_snapshots): the files of a retired
\* dataset or iterator are removed once no snapshot passed in references it.
Referenced(working) == UNION {s.datasets \cup s.iterators : s \in working}
db_collect_garbage(d, fs, working) ==
    LET gone == {x \in d.retired : x \notin Referenced(working)}
    IN  [db |-> [d EXCEPT !.retired = d.retired \ gone], files |-> fs \ gone]

\* ------------------------------------------------------------ Daemon.cpp
Change(type, obj, param) == [type |-> type, obj |-> obj, param |-> param]
Ok == [status |-> "ok", val |-> {}]
\* Response::error(message), whatever the message.
Error == [status |-> "error", val |-> {}]
Outcome(cs, r, built) == [changes |-> cs, resp |-> r, built |-> built]

\* ConfigKey::parse and Config::can_set.
ValidKey(k) == k = ConfigKeyName
can_set(k, v) == v \in ConfigValues

compact_full_candidates(s) == s.datasets
compact_smart_candidates(s) == {}

\* acquire_locks / dispatch_locks: the locks a command needs.
dispatch_locks(req, s) ==
    CASE req.op = "iterator_pop" -> [datasets |-> {}, iterators |-> {req.name}]
      [] req.op = "reindex" -> [datasets |-> {req.name}, iterators |-> {}]
      [] req.op = "compact" ->
           [datasets |-> IF req.name = "smart" THEN compact_smart_candidates(s)
                         ELSE compact_full_candidates(s),
            iterators |-> {}]
      [] req.op \in {"taint_add", "taint_remove"} ->
           [datasets |-> {req.name}, iterators |-> {}]
      [] OTHER -> [datasets |-> {}, iterators |-> {}]

\* Mutant: the change is appended without comparing with the current state.
execute_taint_always(req, s) ==
    IF req.name \notin s.datasets
      THEN {Outcome(<<>>, Error, {})}
      ELSE {Outcome(<<Change("ToggleTaint", req.name, TaintTag)>>, Ok, {})}

\* execute_command(const TaintCommand &)
execute_taint(req, s) ==
    IF req.name \notin s.datasets
      THEN {Outcome(<<>>, Error, {})}
      ELSE LET has_taint == <<req.name, TaintTag>> \in s.taints
               should_have_taint == req.op = "taint_add"
           IN  IF has_taint # should_have_taint
                 THEN {Outcome(<<Change("ToggleTaint", req.name, TaintTag)>>, Ok, {})}
                 ELSE {Outcome(<<>>, Ok, {})}

\* execute_command(const ConfigSetCommand &)
execute_config_set(req, s) ==
    IF ~ValidKey(req.name) THEN {Outcome(<<>>, Error, {})}
    ELSE IF ~can_set(req.name, req.val) THEN {Outcome(<<>>, Error, {})}
    ELSE {Outcome(<<Change("ConfigChange", req.name, ToString(req.val))>>, Ok, {})}

\* DatabaseConfig::get_all(): every known key with its value.
get_all(s) == {<<ConfigKeyName, s.config>>}

\* execute_command(const ConfigGetCommand &): all pairs when no key is given,
\* else the pairs of the keys that ConfigKey::parse accepts.
execute_config_get(req, s) ==
    IF req.name = ""
      THEN {Outcome(<<>>, [status |-> "config", val |-> get_all(s)], {})}
      ELSE LET vals == IF ValidKey(req.name) THEN {<<req.name, s.config>>}
                       ELSE {}
           IN  {Outcome(<<>>, [status |-> "config", val |-> vals], {})}

\* execute_command(const SelectCommand &): with an iterator requested the
\* result goes to newly named files and NewIterator is recorded; without,
\* the hits are returned.  A query the snapshot cannot run is a runtime
\* error; with an iterator requested the writer has created the data file
\* by then, and it stays on disk with no change recorded.
execute_select(req, s, id) ==
    IF req.name = "iterator"
      THEN { Outcome(<<Change("NewIterator", IterNames[id], "")>>,
                     [status |-> "select_iterator",
                      val |-> {<<IterNames[id], 0>>}],
                     {IterNames[id]}),
             Outcome(<<>>, Error, {IterNames[id]}) }
      ELSE { Outcome(<<>>, [status |-> "select",
                            val |-> {<<d, 0>> : d \in s.datasets}], {}),
             Outcome(<<>>, Error, {}) }

\* execute_command(const StatusCommand &): the tasks the snapshot lists.
execute_status(req, s) ==
    {Outcome(<<>>, [status |-> "status",
                    val |-> {<<"task", t>> : t \in s.tasks}], {})}

\* execute_command(const TopologyCommand &): every dataset of the snapshot
\* with its taints (here the number of its tags).
execute_topology(req, s) ==
    {Outcome(<<>>,
             [status |-> "topology",
              val |-> {<<d, Cardinality({p \in s.taints : p[1] = d})>> :
                          d \in s.datasets}], {})}

\* TaskSpec::hex_conn_id(): two hex digits for every byte of the address.
hex_conn_id(conn_id) ==
    CASE conn_id = "c1" -> "6331"
      [] conn_id = "c2" -> "6332"
      [] conn_id = "c3" -> "6333"
      [] OTHER -> ""

\* execute_command(const PingCommand &): the connection id of the task in hex.
execute_ping(req, t) ==
    {Outcome(<<>>, [status |-> "ping",
                    val |-> {<<hex_conn_id(t.conn_id), 0>>}], {})}

\* execute_command(const DatasetDropCommand &)
execute_drop(req, s) == {Outcome(<<Change("Drop", req.name, "")>>, Ok, {})}

\* execute_command(const IndexCommand &): the snapshot builds a dataset named
\* after the task, records NewDataset, and may hit an I/O error before or
\* after the dataset was recorded.
execute_index(req, s, id) ==
    { Outcome(<<Change("NewDataset", NewNames[id], "")>>, Ok, {NewNames[id]}),
      Outcome(<<Change("NewDataset", NewNames[id], "")>>, Error, {NewNames[id]}),
      Outcome(<<>>, Error, {}) }

\* execute_command for Reindex, Compact and IteratorPop: work done by the
\* snapshot on the locked objects; fails on a missing object or an I/O error.
execute_reindex(req, s) ==
    IF req.name \notin s.datasets THEN {Outcome(<<>>, Error, {})}
    ELSE {Outcome(<<>>, Ok, {}), Outcome(<<>>, Error, {})}
execute_compact(req, s) == {Outcome(<<>>, Ok, {})}
execute_iterator_pop(req, s) ==
    IF req.name \notin s.iterators THEN {Outcome(<<>>, Error, {})}
    ELSE {Outcome(<<>>, [status |-> "select_from_iterator", val |-> {}], {})}

\* execute_command(const IndexFromCommand &): the path list file is read
\* (a file that cannot be opened is a runtime error), then as for Index.
execute_index_from(req, s, id) ==
    {Outcome(<<>>, Error, {})} \cup execute_index(req, s, id)

\* dispatch_command_safe: parse, dispatch, turn runtime_error / bad_alloc into
\* Response::error.
\* dispatch_command: the executor of the parsed command.
dispatch_command(req, t, s) ==
    CASE req.op = "config_get" -> execute_config_get(req, s)
      [] req.op = "config_set" -> execute_config_set(req, s)
      [] req.op \in {"taint_add", "taint_remove"} -> execute_taint(req, s)
      [] req.op = "drop" -> execute_drop(req, s)
      [] req.op = "index" -> execute_index(req, s, t.id)
      [] req.op = "index_from" -> execute_index_from(req, s, t.id)
      [] req.op = "select" -> execute_select(req, s, t.id)
      [] req.op = "status" -> execute_status(req, s)
      [] req.op = "topology" -> execute_topology(req, s)
      [] req.op = "ping" -> execute_ping(req, t)
      [] req.op = "reindex" -> execute_reindex(req, s)
      [] req.op = "compact" -> execute_compact(req, s)
      [] req.op = "iterator_pop" -> execute_iterator_pop(req, s)
      [] OTHER -> {Outcome(<<>>, Error, {})}

\* dispatch_command_safe: parse the request and run its executor; a runtime
\* error (a request that does not parse included) becomes Response::error,
\* and an allocation that fails anywhere in between becomes
\* Response::error("out of memory"). The catch undoes nothing: where the
\* allocation fails after the executor appended its change or built its
\* files (in Response::ok(), say), the error goes out with them in place;
\* where it fails between the two (in task->change), the files are on disk
\* and no change is recorded.
dispatch_command_safe(req, t, s) ==
    LET ran == IF req.op = "bad" THEN {Outcome(<<>>, Error, {})}
               ELSE dispatch_command(req, t, s)
    IN  ran \cup {Outcome(<<>>, Error, {})}
            \cup {Outcome(<<>>, Error, o.built) : o \in ran}
            \cup {Outcome(o.changes, Error, o.built) : o \in ran}

\* Commands whose snapshot method asks the Coordinator for its locks through
\* the DatabaseHandle while it runs.
NeedsUpcall(req) == req.op \in {"reindex", "compact", "iterator_pop"}

\* ------------------------------------------------------------ Init
Init ==
    /\ worker_queue = <<>>
    /\ db = [datasets |-> InitialDatasets, taints |-> {}, config |-> 0,
             iterators |-> Iterators, retired |-> {}]
    /\ task = [w \in Workers |-> NullTask]
    /\ snap = [w \in Workers |-> snapshot(db, {})]
    /\ files = InitialDatasets \cup Iterators
    /\ last_task_id = 0
    /\ cpc = "poll"
    /\ revents = <<FALSE, FALSE>>
    /\ to_coord = [w \in Workers |-> NoMsg]
    /\ to_worker = [w \in Workers |-> NoMsg]
    /\ frontend_in = [c \in Clients |-> NoReq]
    /\ frontend_out = [c \in Clients |-> NoReply]
    /\ wpc = [w \in Workers |-> "start"]
    /\ address = [w \in Workers |-> ""]
    /\ request = [w \in Workers |-> NoReq]
    /\ client_waiting = {}

\* ------------------------------------------------------------ clients
\* The process runs until an exception leaves run() or a worker thread,
\* which nothing catches.
Running == cpc # "aborted"

Unread == {c \in Clients : frontend_in[c] # NoReq}

\* A client (REQ socket) sends one request and waits for its reply; the
\* frontend socket takes requests while the process runs.
ClientSend(c, r, max) ==
    /\ Running
    /\ c \notin client_waiting
    /\ last_task_id + Cardinality(Unread) < max
    /\ frontend_in' = [frontend_in EXCEPT ![c] = r]
    /\ frontend_out' = [frontend_out EXCEPT ![c] = NoReply]
    /\ client_waiting' = client_waiting \cup {c}
    /\ UNCHANGED << worker_queue, task, snap, db, files, last_task_id, cpc,
                    revents, to_coord, to_worker, wpc, address, request >>

\* ------------------------------------------------------------ Coordinator
\* What the Coordinator's handlers read and write.
CoordState ==
    [worker_queue |-> worker_queue, task |-> task, snap |-> snap, db |-> db,
     files |-> files, last_task_id |-> last_task_id, to_worker |-> to_worker,
     frontend_out |-> frontend_out, client_waiting |-> client_waiting,
     running |-> Running]

Busy(tk) == {w \in Workers : tk[w].id # 0}

\* Mutant: the frontend is polled whatever the queue holds.
PollItemsAlways == IF Len(worker_queue) > 0 THEN 2 ELSE 2

\* run(): the poll set holds the frontend only if a worker is queued.
PollItems == IF Len(worker_queue) > 0 THEN 2 ELSE 1

\* run(): zmq::poll blocks until an item of the poll set is ready and sets
\* revents of every ready item; items[1] stays 0 when it was not polled.
BackendReadable == \E w \in Workers : to_coord[w] # NoMsg
FrontendReadable == PollItems = 2 /\ Unread # {}

Poll ==
    /\ cpc = "poll"
    /\ BackendReadable \/ FrontendReadable
    /\ revents' = <<BackendReadable, FrontendReadable>>
    /\ cpc' = IF BackendReadable THEN "backend" ELSE "frontend"
    /\ UNCHANGED << worker_queue, task, snap, db, files, last_task_id,
                    to_coord, to_worker, frontend_in, frontend_out, wpc,
                    address, request, client_waiting >>

\* Mutant: poll_backend is repeated while another worker's message waits.
AfterBackendDrain ==
    IF Cardinality({w \in Workers : to_coord[w] # NoMsg}) > 1 THEN "backend"
    ELSE IF revents[2] THEN "frontend" ELSE "poll"

\* run(): after poll_backend, poll_frontend runs if items[1] was ready.
AfterBackend == IF revents[2] THEN "frontend" ELSE "poll"
\* run(): the next iteration builds items[] anew, revents cleared.
NewItems(pc) == IF pc = "poll" THEN <<FALSE, FALSE>> ELSE revents

\* A string that is no key of wctxs.
NoIdentity == NUM_WORKERS
\* The read of front() faults.
FrontFault == NUM_WORKERS + 1
\* What a read outside the queue's elements can yield: the identity a worker
\* left in recycled storage, or a string that is no worker's identity.
Stale == Workers \cup {NoIdentity}
\* The queues that pop() can leave when nothing was queued: the size wraps
\* round to 2^64 - 1, so the queue is not empty, and what it holds is stale.
\* A queue whose size wrapped round to 2^64 - k is written here as its front
\* followed by k times NoIdentity.
CorruptQueues == {<<h, NoIdentity>> : h \in Stale}
IsCorrupt(q) == \E i \in 1 .. Len(q) : q[i] \notin Workers

\* Mutant: the most recently queued worker is taken.
queue_back(q) == IF q # <<>> THEN {q[Len(q)]} ELSE Stale \cup {FrontFault}
\* Mutant: the identity is not removed from the queue.
queue_keep(q) == {q}

\* worker_queue.front(): on an empty queue the call is undefined: it yields
\* something stale or faults.
queue_front(q) == IF q # <<>> THEN {Head(q)} ELSE Stale \cup {FrontFault}

\* worker_queue.pop(): the queues the call can leave; on an empty queue the
\* call is undefined and leaves a corrupt queue; on a corrupt queue the size
\* goes down by one more and the front is another stale read.
queue_pop(q) ==
    IF q = <<>> THEN CorruptQueues
    ELSE IF IsCorrupt(q)
      THEN {<<h>> \o [i \in 1 .. Len(q) |-> NoIdentity] : h \in Stale}
    ELSE {Tail(q)}

\* worker_queue.push(worker_addr): on a corrupt queue the size goes up by
\* one, from 2^64 - 1 round to 0, and the pushed identity lands outside the
\* queue's elements.
queue_push(st, w) ==
    LET q == st.worker_queue
    IN  [st EXCEPT !.worker_queue =
           IF ~IsCorrupt(q) THEN Append(q, w)
           ELSE IF Len(q) = 2 THEN <<>>
           ELSE SubSeq(q, 1, Len(q) - 1)]

LockResp(r) == [type |-> "lockresp", resp |-> r]

\* handle_dataset_lock_req: the names read from the frames, the terminating
\* empty name included (the do .. while pushes the name before it tests it).
ds_names(names) == names \cup {EmptyName}

\* Mutant: the scan tests task == nullptr instead of task != nullptr.
dataset_already_locked_inverted(st, names) ==
    \E n \in ds_names(names) : \E p \in Workers :
        st.task[p].id = 0 /\ n \in st.snap[p].locked_datasets

\* Mutant: the scan does not test the task pointer.
dataset_already_locked_any_task(st, names) ==
    \E n \in ds_names(names) : \E p \in Workers :
        n \in st.snap[p].locked_datasets

\* handle_dataset_lock_req: the scan over every worker context.
dataset_already_locked(st, names) ==
    \E n \in ds_names(names) : \E p \in Workers :
        st.task[p].id # 0 /\ n \in st.snap[p].locked_datasets

\* DatabaseSnapshot::lock_dataset for each received name.
lock_datasets(s, names) ==
    [s EXCEPT !.locked_datasets = s.locked_datasets \cup ds_names(names)]

\* A handler left by an exception before it changed anything: the message
\* is consumed, nothing is answered, and run(), which catches nothing, ends.
thrown(st) == [st EXCEPT !.running = FALSE]

\* Mutant: the names are recorded before the scan decides.
handle_dataset_lock_req_early(st, w, names) ==
    { IF ~dataset_already_locked(st, names)
        THEN [st EXCEPT !.snap[w] = lock_datasets(st.snap[w], names),
                        !.to_worker[w] = LockResp("LockOk")]
        ELSE [st EXCEPT !.snap[w] = lock_datasets(st.snap[w], names),
                        !.to_worker[w] = LockResp("LockDenied")],
      thrown(st) }

\* handle_dataset_lock_req: the results of the handler: the names are read,
\* the scan decides, LockOk or LockDenied is sent; or reading the names
\* throws (a frame that is not empty, an allocation that fails in
\* push_back).
handle_dataset_lock_req(st, w, names) ==
    { IF ~dataset_already_locked(st, names)
        THEN [st EXCEPT !.snap[w] = lock_datasets(st.snap[w], names),
                        !.to_worker[w] = LockResp("LockOk")]
        ELSE [st EXCEPT !.to_worker[w] = LockResp("LockDenied")],
      thrown(st) }

\* handle_iterator_lock_req: the scan over every worker context.
iterator_already_locked(st, name) ==
    \E p \in Workers :
        st.task[p].id # 0 /\ name \in st.snap[p].locked_iterators

\* DatabaseSnapshot::lock_iterator
lock_iterator(s, name) ==
    [s EXCEPT !.locked_iterators = s.locked_iterators \cup {name}]

\* handle_iterator_lock_req: the results of the handler: LockOk or
\* LockDenied is sent, or reading the frames throws.
handle_iterator_lock_req(st, w, iterator_name) ==
    { IF ~iterator_already_locked(st, iterator_name)
        THEN [st EXCEPT !.snap[w] = lock_iterator(st.snap[w], iterator_name),
                        !.to_worker[w] = LockResp("LockOk")]
        ELSE [st EXCEPT !.to_worker[w] = LockResp("LockDenied")],
      thrown(st) }

\* Mutant: the task pointer is not reset.
commit_task_keep(st, w) ==
    [st EXCEPT !.db = db_commit_task(st.db, st.task[w])]

\* Mutant: the task pointer is reset without committing the task.
commit_task_skip(st, w) == [st EXCEPT !.task[w] = NullTask]

\* commit_task(wctx): db.commit_task(id), then wctx->task = nullptr.
commit_task(st, w) ==
    [st EXCEPT !.db = db_commit_task(st.db, st.task[w]),
               !.task[w] = NullTask]

\* Mutant: the set is left empty, the loop over the worker contexts is skipped.
working_snapshots_none(st) == {st.snap[p] : p \in {}}

\* Mutant: the loop takes the snapshot of every worker context.
working_snapshots_all(st) == {st.snap[p] : p \in Workers}

\* handle_response: the snapshots of the workers whose task is not null.
working_snapshots(st) == {st.snap[p] : p \in Busy(st.task)}

\* Mutant: the reply is forwarded and commit_task is not called.
handle_response_no_commit(st, w, client_addr, reply) ==
    LET sent == [st EXCEPT !.frontend_out[client_addr] = reply,
                           !.client_waiting = st.client_waiting \ {client_addr}]
        gc == db_collect_garbage(sent.db, sent.files, working_snapshots(sent))
    IN  {[sent EXCEPT !.db = gc.db, !.files = gc.files], thrown(sent),
         thrown(st)}

\* handle_response: the results of the handler: forward the reply,
\* commit_task, collect_garbage; or the insert into working_snapshots throws
\* once the reply is forwarded and the task committed, and collect_garbage
\* is not called; or reading the reply throws: the Response is consumed,
\* nothing is forwarded and the task is neither committed nor reset.
handle_response(st, w, client_addr, reply) ==
    LET sent == [st EXCEPT !.frontend_out[client_addr] = reply,
                           !.client_waiting = st.client_waiting \ {client_addr}]
        done == commit_task(sent, w)
        gc == db_collect_garbage(done.db, done.files, working_snapshots(done))
    IN  {[done EXCEPT !.db = gc.db, !.files = gc.files], thrown(done),
         thrown(st)}

\* poll_backend: read [worker_addr][empty][action] and switch on the action;
\* the results of the handler taken.
poll_backend(st, w, m) ==
    CASE m.type = "DatasetLockReq" -> handle_dataset_lock_req(st, w, m.names)
      [] m.type = "IteratorLockReq" -> handle_iterator_lock_req(st, w, m.name)
      [] m.type = "Response" ->
           handle_response(queue_push(st, w), w, m.addr, m.reply)
      [] m.type = "Ready" -> {queue_push(st, w)}

PollBackend(w) ==
    /\ cpc = "backend"
    /\ to_coord[w] # NoMsg
    /\ \E st \in poll_backend(CoordState, w, to_coord[w]) :
         /\ worker_queue' = st.worker_queue
         /\ task' = st.task
         /\ snap' = st.snap
         /\ db' = st.db
         /\ files' = st.files
         /\ to_worker' = st.to_worker
         /\ frontend_out' = st.frontend_out
         /\ client_waiting' = st.client_waiting
         /\ cpc' = IF st.running THEN AfterBackend ELSE "aborted"
    /\ to_coord' = [to_coord EXCEPT ![w] = NoMsg]
    /\ revents' = NewItems(AfterBackend)
    /\ UNCHANGED << last_task_id, frontend_in, wpc, address, request >>

\* Database::allocate_task: a task with the next id.
allocate_task(st, client_addr) ==
    [id |-> st.last_task_id + 1, conn_id |-> client_addr, changes |-> <<>>]

\* Mutant: the worker keeps the snapshot of its previous task.
dispatch_snapshot_stale(st, w) == st.snap[w]

\* The tasks the Database lists once allocate_task has added the new one:
\* those the worker contexts point to, and the new one.
live_tasks(st) == {st.task[p].id : p \in Busy(st.task)} \cup {st.last_task_id + 1}

\* poll_frontend: wctx->snap = db.snapshot(), taken after allocate_task.
dispatch_snapshot(st, w) == snapshot(st.db, live_tasks(st))

\* poll_frontend: the possible results of reading client c's request: pop the
\* LRU worker, give it a task and a fresh snapshot, send it the request.
\* wctxs.at() of a string that is no worker's identity throws out_of_range
\* after the pop: no task is allocated, nothing is sent, the process ends.
\* A fault in front() ends the process before the pop, and so does an
\* allocation that fails while the request is read: the frames are consumed
\* and nothing else has changed.
poll_frontend(st, c, req) ==
    {thrown(st)} \cup
    { IF worker_addr \in Workers
        THEN [st EXCEPT !.worker_queue = popped,
                        !.task[worker_addr] = allocate_task(st, c),
                        !.last_task_id = st.last_task_id + 1,
                        !.snap[worker_addr] = dispatch_snapshot(st, worker_addr),
                        !.to_worker[worker_addr] =
                            [type |-> "request", addr |-> c, request |-> req]]
        ELSE IF worker_addr = NoIdentity
        THEN [st EXCEPT !.worker_queue = popped, !.running = FALSE]
        ELSE [st EXCEPT !.running = FALSE]
      : worker_addr \in queue_front(st.worker_queue),
        popped \in queue_pop(st.worker_queue) }

PollFrontend(c) ==
    /\ cpc = "frontend"
    /\ frontend_in[c] # NoReq
    /\ \E st \in poll_frontend(CoordState, c, frontend_in[c]) :
         /\ worker_queue' = st.worker_queue
         /\ task' = st.task
         /\ last_task_id' = st.last_task_id
         /\ snap' = st.snap
         /\ to_worker' = st.to_worker
         /\ cpc' = IF st.running THEN "poll" ELSE "aborted"
    /\ frontend_in' = [frontend_in EXCEPT ![c] = NoReq]
    /\ revents' = NewItems("poll")
    /\ UNCHANGED << db, files, to_coord, frontend_out, wpc, address, request,
                    client_waiting >>

\* ------------------------------------------------------------ Worker
\* operator()(): announce Ready, then wait for a request.
WorkerStart(w) ==
    /\ Running
    /\ wpc[w] = "start"
    /\ to_coord' = [to_coord EXCEPT ![w] = [type |-> "Ready"]]
    /\ wpc' = [wpc EXCEPT ![w] = "recv"]
    /\ UNCHANGED << worker_queue, task, snap, db, files, last_task_id, cpc,
                    revents, to_worker, frontend_in, frontend_out, address,
                    request, client_waiting >>

\* operator()(): receive [address][empty][request]; dispatch_command_safe
\* starts on the request with the worker's task and snapshot.
WorkerRecv(w) ==
    /\ Running
    /\ wpc[w] = "recv"
    /\ to_worker[w].type = "request"
    /\ address' = [address EXCEPT ![w] = to_worker[w].addr]
    /\ request' = [request EXCEPT ![w] = to_worker[w].request]
    /\ to_worker' = [to_worker EXCEPT ![w] = NoMsg]
    /\ wpc' = [wpc EXCEPT ![w] = "exec"]
    /\ UNCHANGED << worker_queue, task, snap, db, files, last_task_id, cpc,
                    revents, to_coord, frontend_in, frontend_out,
                    client_waiting >>

\* The lock request the snapshot sends through its DatabaseHandle.
lock_request(req, s) ==
    LET locks == dispatch_locks(req, s)
    IN  IF locks.iterators # {}
          THEN [type |-> "IteratorLockReq",
                name |-> CHOOSE n \in locks.iterators : TRUE]
          ELSE [type |-> "DatasetLockReq", names |-> locks.datasets]

\* DatabaseHandle upcall made by the snapshot while the command executes:
\* one lock request carrying the planned locks.
WorkerLockReq(w) ==
    /\ Running
    /\ wpc[w] = "exec"
    /\ NeedsUpcall(request[w])
    /\ to_coord' = [to_coord EXCEPT ![w] = lock_request(request[w], snap[w])]
    /\ wpc' = [wpc EXCEPT ![w] = "lock"]
    /\ UNCHANGED << worker_queue, task, snap, db, files, last_task_id, cpc,
                    revents, to_worker, frontend_in, frontend_out, address,
                    request, client_waiting >>

\* The upcall's answer: LockOk lets the command go on, LockDenied makes the
\* worker ask again.
WorkerLockResp(w) ==
    /\ Running
    /\ wpc[w] = "lock"
    /\ to_worker[w].type = "lockresp"
    /\ wpc' = [wpc EXCEPT ![w] =
                 IF to_worker[w].resp = "LockOk" THEN "run" ELSE "exec"]
    /\ to_worker' = [to_worker EXCEPT ![w] = NoMsg]
    /\ UNCHANGED << worker_queue, task, snap, db, files, last_task_id, cpc,
                    revents, to_coord, frontend_in, frontend_out, address,
                    request, client_waiting >>

CanFinish(w) ==
    IF NeedsUpcall(request[w]) THEN wpc[w] = "run" ELSE wpc[w] = "exec"

\* Mutant: a failed command ends the worker thread after its Response.
after_response_error_ends(o) ==
    IF o.resp.status = "error" THEN "dead" ELSE "recv"

\* operator()(): the for (;;) loop goes back to receiving, whatever the
\* Response was.
after_response(o) == "recv"

\* operator()(): dispatch_command_safe returns; the Response is sent.
WorkerReply(w) ==
    /\ Running
    /\ CanFinish(w)
    /\ \E o \in dispatch_command_safe(request[w], task[w], snap[w]) :
         /\ task' = [task EXCEPT ![w].changes = task[w].changes \o o.changes]
         /\ files' = files \cup o.built
         /\ to_coord' = [to_coord EXCEPT ![w] =
                           [type |-> "Response", addr |-> address[w],
                            reply |-> o.resp]]
         /\ wpc' = [wpc EXCEPT ![w] = after_response(o)]
    /\ address' = [address EXCEPT ![w] = ""]
    /\ request' = [request EXCEPT ![w] = NoReq]
    /\ UNCHANGED << worker_queue, snap, db, last_task_id, cpc, revents,
                    to_worker, frontend_in, frontend_out, client_waiting >>

\* An exception leaves operator()(), which has no handler: one other than
\* runtime_error / bad_alloc out of dispatch_command_safe, or a bad_alloc in
\* response.to_string() once the command has run. The thread ends in
\* std::terminate and the process with it; the files the command had built
\* by then stay on disk.
WorkerCrash(w) ==
    /\ Running
    /\ wpc[w] \in {"exec", "run"}
    /\ \E built \in {{}} \cup
                     (IF CanFinish(w)
                        THEN {o.built : o \in dispatch_command_safe(
                                                request[w], task[w], snap[w])}
                        ELSE {}) :
         files' = files \cup built
    /\ wpc' = [wpc EXCEPT ![w] = "dead"]
    /\ cpc' = "aborted"
    /\ UNCHANGED << worker_queue, task, snap, db, last_task_id,
                    revents, to_coord, to_worker, frontend_in, frontend_out,
                    address, request, client_waiting >>

\* The system's steps, for clients cs that send up to max requests drawn
\* from rs.
System(cs, rs, max) ==
    \/ \E c \in cs, r \in rs : ClientSend(c, r, max)
    \/ Poll
    \/ \E w \in Workers : PollBackend(w)
    \/ \E c \in Clients : PollFrontend(c)
    \/ \E w \in Workers : WorkerStart(w)
    \/ \E w \in Workers : WorkerRecv(w)
    \/ \E w \in Workers : WorkerLockReq(w)
    \/ \E w \in Workers : WorkerLockResp(w)
    \/ \E w \in Workers : WorkerReply(w)
    \/ \E w \in Workers : WorkerCrash(w)

\* Commands that change the datasets, with one that takes a lock.
DataRequests ==
    {r \in Requests :
        r.op = "index" \/ (r.op \in {"drop", "reindex"} /\ r.name = "ds1")}

\* Commands that write and read the configuration, with one that takes a
\* lock and may fail.
ConfigRequests ==
    {r \in Requests :
        r.op \in {"config_set", "config_get"}
        \/ (r.op = "reindex" /\ r.name = "ds1")}

\* Commands that ask the Coordinator for a lock while they run.
LockRequests == {r \in Requests : r.op \in {"reindex", "iterator_pop"}}

\* Taint(add) on ds1, which the lock planner gives a lock and which asks for
\* none, with a command that asks for one.
TaintAddRequests == {r \in Requests : r.op \in {"taint_add", "iterator_pop"}}

\* Short commands, for runs with more clients than workers.
RoutingRequests == {r \in Requests : r.op = "iterator_pop"}

\* Commands that retire a dataset or an iterator, with the one that reads
\* an iterator.
GcRequests == {r \in Requests : r.op \in {"drop", "iterator_pop"}}

Next == System({"c1", "c2"}, DataRequests, MaxTasks)
Spec == Init /\ [][Next]_vars

NextGc == System({"c1", "c2"}, GcRequests, MaxTasks)
SpecGc == Init /\ [][NextGc]_vars

NextConfig == System({"c1", "c2"}, ConfigRequests, MaxTasks)
SpecConfig == Init /\ [][NextConfig]_vars

NextLocks == System({"c1", "c2"}, LockRequests, MaxTasks)
SpecLocks == Init /\ [][NextLocks]_vars

NextTaintAdd == System({"c1", "c2"}, TaintAddRequests, MaxTasks)
SpecTaintAdd == Init /\ [][NextTaintAdd]_vars

NextRouting == System(Clients, RoutingRequests, MaxBurst)
SpecRouting == Init /\ [][NextRouting]_vars

\* Fairness of the threads: the Coordinator loop and every worker thread keep
\* running, and the ROUTER sockets fair-queue their peers.  Clients need not
\* send and a worker need not die.
Fairness ==
    /\ WF_vars(Poll)
    /\ \A w \in Workers : SF_vars(PollBackend(w))
    /\ \A c \in Clients : SF_vars(PollFrontend(c))
    /\ \A w \in Workers :
         /\ WF_vars(WorkerStart(w))
         /\ WF_vars(WorkerRecv(w))
         /\ WF_vars(WorkerLockReq(w))
         /\ WF_vars(WorkerLockResp(w))
         /\ WF_vars(WorkerReply(w))

\* Two clients that each ask once for a reindex of ds1: two tasks that need
\* the same dataset lock.
ConflictRequests == {r \in Requests : r.op = "reindex" /\ r.name = "ds1"}
ConflictClients == {"c1", "c2"}
NextConflict ==
    System(ConflictClients, ConflictRequests, Cardinality(ConflictClients))
SpecConflictFair == Init /\ [][NextConflict]_vars /\ Fairness

\* Taint commands on ds1, a drop that makes ds1 disappear, and a command
\* that takes a dataset lock.
TaintRequests ==
    {r \in Requests :
        r.op \in {"taint_add", "taint_remove"}
        \/ (r.op = "drop" /\ r.name = "ds1")
        \/ (r.op = "reindex" /\ r.name = "ds2")}
NextTaint == System({"c1", "c2"}, TaintRequests, MaxTasks)
SpecTaint == Init /\ [][NextTaint]_vars

\* ------------------------------------------------------------ properties
\* What a task observes of the database through a snapshot.
View(s) == [datasets |-> s.datasets, taints |-> s.taints, config |-> s.config]

\* The Coordinator handled the backend message of worker w in this step.
Handled(w, type) == to_coord[w].type = type /\ to_coord'[w] = NoMsg
\* The Coordinator dispatched a request to worker w in this step.
Dispatched(w) == to_worker'[w].type = "request" /\ to_worker[w].type # "request"

Denied(w) == to_worker[w].type = "lockresp" /\ to_worker[w].resp = "LockDenied"
Granted(w) == to_worker[w].type = "lockresp" /\ to_worker[w].resp = "LockOk"
\* The Coordinator's handler was left by an exception before it forwarded a
\* reply or committed a task, and the process ends.
ThrewEarly ==
    /\ ~Running'
    /\ frontend_out' = frontend_out /\ task' = task
    /\ db' = db /\ files' = files
\* The Coordinator answered the lock request of worker w in this step.
Answered(w) == Denied(w)' \/ Granted(w)'

\* C1 (as claimed): no two worker snapshots, whatever their workers' tasks,
\* record a lock on the same dataset id or on the same iterator id.
C1_NoTwoSnapshotsShareLock ==
    \A w1, w2 \in Workers :
        w1 # w2 =>
          /\ (snap[w1].locked_datasets \cap snap[w2].locked_datasets)
                \subseteq {EmptyName}
          /\ snap[w1].locked_iterators \cap snap[w2].locked_iterators = {}

\* C1 (amended): no two workers that both have a task hold a lock on the
\* same dataset id or on the same iterator id.
C1_BusySnapshotsShareNoLock ==
    \A w1, w2 \in Busy(task) :
        w1 # w2 =>
          /\ snap[w1].locked_datasets \cap snap[w2].locked_datasets = {}
          /\ snap[w1].locked_iterators \cap snap[w2].locked_iterators = {}

\* C1 witness: a busy worker holds the lock on ds1 and another busy worker
\* has just been denied.
C1_Witness ==
    \E w1, w2 \in Busy(task) :
        /\ w1 # w2
        /\ "ds1" \in snap[w1].locked_datasets
        /\ request[w2].op = "reindex" /\ request[w2].name = "ds1"
        /\ Denied(w2)

\* C2: a DatasetLockReq of worker w for the names D is denied exactly when
\* another worker with a task holds a lock on one of D, and otherwise it is
\* granted and exactly D is added to w's lock record; an IteratorLockReq
\* follows the same rule for its one name.
C2_LockDecisionRule ==
    [][\A w \in Workers :
         /\ Handled(w, "DatasetLockReq") =>
              LET D == to_coord[w].names
                  held == \E p \in Workers \ {w} :
                             /\ task[p].id # 0
                             /\ D \cap snap[p].locked_datasets # {}
              IN  IF held
                    THEN Denied(w)' /\ snap' = snap
                    ELSE /\ Granted(w)'
                         /\ snap'[w].locked_datasets =
                              snap[w].locked_datasets \cup D
         /\ Handled(w, "IteratorLockReq") =>
              LET n == to_coord[w].name
                  held == \E p \in Workers \ {w} :
                             /\ task[p].id # 0
                             /\ n \in snap[p].locked_iterators
              IN  IF held
                    THEN Denied(w)' /\ snap' = snap
                    ELSE /\ Granted(w)'
                         /\ snap'[w].locked_iterators =
                              snap[w].locked_iterators \cup {n}
      ]_vars

\* C3: a task's snapshot shows the database as it was when the task was
\* dispatched, and no step taken while the worker keeps the task (a commit
\* of another task included) changes what the snapshot shows.
C3_SnapshotIsolation ==
    [][\A w \in Workers :
         /\ (task'[w].id # 0 /\ task'[w].id # task[w].id) =>
              View(snap'[w]) = View(db)
         /\ (task[w].id # 0 /\ task'[w].id = task[w].id) =>
              View(snap'[w]) = View(snap[w])
      ]_vars

\* C3 witness: a worker is executing a task on a snapshot that still shows
\* ds1 after another task's Drop of ds1 was committed.
C3_Witness ==
    \E w \in Workers :
        /\ task[w].id # 0
        /\ wpc[w] \in {"exec", "lock", "run"}
        /\ "ds1" \in snap[w].datasets
        /\ "ds1" \notin db.datasets

\* C4: when the Response carries an error, handling it leaves the published
\* datasets, taints and configuration as they were.
C4_FailedTaskNotCommitted ==
    [][\A w \in Workers :
         (Handled(w, "Response") /\ to_coord[w].reply.status = "error") =>
            View(db') = View(db)
      ]_vars

\* C5: whenever the frontend was found readable by the poll, up to the read
\* of the request, the worker queue is not empty; so no request is read
\* while every worker has a task.
C5_FrontendReadNeedsQueuedWorker ==
    /\ revents[2] => Len(worker_queue) > 0
    /\ cpc = "frontend" => Len(worker_queue) > 0
    /\ cpc = "frontend" => Busy(task) # Workers

\* C5 witness: a backend event was handled between the poll and the read of
\* the frontend, and the frontend is about to be read.
C5_Witness ==
    /\ cpc = "frontend"
    /\ revents = <<TRUE, TRUE>>
    /\ Len(worker_queue) > 0

\* C6: the worker queue is first-in-first-out: a dispatch goes to the head
\* of the queue and removes it, a handled Ready or Response appends the
\* worker at the tail, and nothing else changes the queue.
C6_FifoDispatch ==
    [][/\ \A w \in Workers :
            Dispatched(w) =>
              /\ worker_queue # <<>>
              /\ w = Head(worker_queue)
              /\ worker_queue' = Tail(worker_queue)
       /\ \A w \in Workers :
            (Handled(w, "Ready") \/ Handled(w, "Response")) =>
              worker_queue' = Append(worker_queue, w)
       /\ worker_queue' # worker_queue =>
            \E w \in Workers :
              Dispatched(w) \/ Handled(w, "Ready") \/ Handled(w, "Response")
      ]_vars

\* C6 witness: a worker that came back with a Response queued behind another
\* worker, and a later request was dispatched to that other worker first.
C6_Witness ==
    \E w \in Workers :
        /\ to_worker[w].type = "request"
        /\ task[w].id >= 2
        /\ Len(worker_queue) >= 1
        /\ \E c \in Clients : frontend_out[c] # NoReply

\* A worker that has sent its Ready or a Response and has not taken a
\* request since: it waits in its receive.
HasSent(w) == wpc[w] = "recv"
\* A worker whose Ready or Response the Coordinator has handled and that
\* has not taken a request since.
Announced(w) == HasSent(w) /\ to_coord[w] = NoMsg
InQueue(w) == \E i \in DOMAIN worker_queue : worker_queue[i] = w

\* C7 as stated: a worker is in the queue exactly when it has sent Ready or
\* a Response since its last dispatch and its task is null; the queue holds
\* no identity twice and at most NUM_WORKERS identities.
C7_WorkerQueueInvariant ==
    /\ \A w \in Workers : InQueue(w) <=> (task[w].id = 0 /\ HasSent(w))
    /\ \A i, j \in DOMAIN worker_queue :
         i # j => worker_queue[i] # worker_queue[j]
    /\ Len(worker_queue) <= NUM_WORKERS

\* C7 (amended): between two handlers of the running Coordinator, a worker
\* is in the queue exactly when the Coordinator has handled its Ready or its
\* Response since its last dispatch and its task is null (a Ready that is
\* sent and not yet handled does not count); the queue holds no identity
\* twice and at most NUM_WORKERS identities.
C7_QueueHoldsHandledWorkers ==
    /\ Running =>
         \A w \in Workers : InQueue(w) <=> (task[w].id = 0 /\ Announced(w))
    /\ \A i, j \in DOMAIN worker_queue :
         i # j => worker_queue[i] # worker_queue[j]
    /\ Len(worker_queue) <= NUM_WORKERS

\* C7 witness: every worker is back in the queue after requests were served,
\* while one worker's Response is still to be handled.
C7_Witness ==
    /\ last_task_id >= 2
    /\ \E w \in Workers : InQueue(w) /\ \E c \in Clients : frontend_out[c] # NoReply
    /\ \E w \in Workers : ~InQueue(w) /\ to_coord[w].type = "Response"

\* What the snapshots of the workers with a task reference.
HeldArtifacts(tk, sn) ==
    UNION {sn[p].datasets \cup sn[p].iterators : p \in Busy(tk)}

\* C8: the artifact of a dataset or of an iterator is deleted only in a step
\* after which no worker with a task has a snapshot that references it; and
\* the garbage collection that follows a commit is passed exactly the
\* snapshots of the workers with a task at that moment: it deletes the
\* retired artifacts these snapshots do not reference, and nothing else.
C8_GcSafety ==
    [][/\ \A x \in files \ files' : x \notin HeldArtifacts(task', snap')
       /\ \A w \in Workers :
            (Handled(w, "Response") /\ Running') =>
              LET committed == db_commit_task(db, task[w])
              IN  /\ files \ files' =
                       {x \in committed.retired \cap files :
                           x \notin HeldArtifacts(task', snap)}
                  /\ db'.retired = committed.retired \ (files \ files')
      ]_vars

\* C8 witness: it1 was dropped by a committed task and the garbage
\* collection that followed kept its artifact, because a worker with a task
\* still references the iterator.
C8_Witness ==
    /\ Running
    /\ "it1" \in db.retired
    /\ "it1" \in files
    /\ \E w \in Busy(task) : "it1" \in snap[w].iterators

\* C9: whenever the executor body of an IteratorPop, Reindex, Compact or
\* Taint command can run, the worker's snapshot holds every lock the lock
\* planner returns for the command.
C9_LocksHeldWhenExecutorRuns ==
    \A w \in Workers :
        (CanFinish(w) /\ request[w].op \in
             {"iterator_pop", "reindex", "compact", "taint_add", "taint_remove"}) =>
           LET locks == dispatch_locks(request[w], snap[w])
           IN  /\ locks.datasets \subseteq snap[w].locked_datasets
               /\ locks.iterators \subseteq snap[w].locked_iterators

\* Worker w holds a request it has not answered yet.
InFlight(w) == wpc[w] \in {"exec", "lock", "run"}

\* C10: when two concurrently dispatched tasks need the lock of the same
\* dataset and the worker threads and the Coordinator keep being scheduled, a
\* lock is granted only when no other worker with a task holds it, and every
\* worker that holds a request, a denied worker that retries included,
\* eventually sends its Response, unless the process has ended.
C10_DeniedWorkerEventuallyReplies ==
    /\ [](\A w, p \in Workers :
            (p # w /\ Granted(w) /\ request[w].name \in snap[p].locked_datasets)
                => task[p].id = 0)
    /\ [](\A w \in Workers : Denied(w) => InFlight(w))
    /\ \A w \in Workers :
          InFlight(w) ~>
             (to_coord[w].type = "Response" \/ ~Running)

\* C10 witness: two live workers run reindex of ds1; one holds the lock and
\* executes, the other has been denied and will ask again.
C10_Witness ==
    \E w1, w2 \in Workers :
        /\ w1 # w2
        /\ wpc[w1] = "run" /\ request[w1].name = "ds1"
        /\ wpc[w2] = "lock" /\ request[w2].name = "ds1" /\ Denied(w2)
        /\ Running

\* The lock record of worker p counts in the grant decisions: the scans of
\* the lock handlers look at the workers whose task is not null.
LocksCount(tk, sn, p) ==
    /\ tk[p].id # 0
    /\ sn[p].locked_datasets # {} \/ sn[p].locked_iterators # {}

\* C11: the death of a worker leaves the Coordinator running, the task of a
\* worker that died is never committed, and once the Coordinator has handled
\* the next Response of another worker (commit and garbage collection) the
\* locks of the dead worker no longer count as held.
C11_DeadWorkerLocksReleasedByGc ==
    [][\A p \in Workers :
         /\ (wpc'[p] = "dead" /\ wpc[p] # "dead") => cpc' # "aborted"
         /\ wpc[p] = "dead" =>
              /\ ~Handled(p, "Response")
              /\ \A w \in Workers \ {p} :
                   Handled(w, "Response") => ~LocksCount(task', snap', p)
      ]_vars

\* C12: the handler that forwards the reply of a task also commits the
\* task's changes before any other handler runs (a handler that is left by
\* an exception before it commits has forwarded nothing), the published
\* state changes in no other step, and a dispatch hands out a snapshot of
\* the published state; so every request read after a reply sees the
\* replied task's changes.
C12_CommitVisibility ==
    [][/\ \A w \in Workers :
            Handled(w, "Response") =>
              /\ \/ /\ frontend_out'[to_coord[w].addr] = to_coord[w].reply
                    /\ View(db') = View(db_commit_task(db, task[w]))
                    /\ task'[w] = NullTask
                 \/ ThrewEarly
              /\ \A p \in Workers : ~Dispatched(p)
       /\ \A w \in Workers :
            Dispatched(w) => (View(snap'[w]) = View(db') /\ db' = db)
       /\ View(db') # View(db) => \E w \in Workers : Handled(w, "Response")
      ]_vars

\* C12 witness: a client has its ok reply for the ConfigSet and a task
\* dispatched afterwards holds a snapshot with the new value.
C12_Witness ==
    \E w \in Workers :
        /\ task[w].id >= 2
        /\ to_worker[w].type = "request"
        /\ snap[w].config = 1
        /\ \E c \in Clients : frontend_out[c].status = "ok"

\* The reply that client c holds changed in this step.
Replied(c) == frontend_out'[c] # frontend_out[c] /\ frontend_out'[c] # NoReply

\* C13 (routing part): a reply reaches the frontend only when the Response
\* of a worker with a task is handled; it goes to the client whose request
\* the task was allocated for, that client is waiting for it, and the task
\* is gone afterwards, so a request is answered at most once.
C13_ReplyRouting ==
    [][\A c \in Clients :
         Replied(c) =>
           \E w \in Workers :
              /\ Handled(w, "Response")
              /\ task[w].id # 0
              /\ task[w].conn_id = c
              /\ to_coord[w].addr = c
              /\ frontend_out'[c] = to_coord[w].reply
              /\ c \in client_waiting
              /\ task'[w] = NullTask
              /\ \A d \in Clients \ {c} : frontend_out'[d] = frontend_out[d]
      ]_vars

\* The Coordinator was left by an exception of its own; no worker died.
CoordinatorAborted == ~Running /\ \A p \in Workers : wpc[p] # "dead"

\* C13: the routing part, and every request dispatched to a worker is
\* eventually answered on the frontend unless that worker crashes or the
\* Coordinator aborts.
C13_RequestReplyRouting ==
    /\ C13_ReplyRouting
    /\ \A w \in Workers : \A c \in Clients :
          (task[w].id # 0 /\ task[w].conn_id = c) ~>
             (frontend_out[c] # NoReply \/ wpc[w] = "dead"
                \/ CoordinatorAborted)

\* Worker w sent a Response in this step.
SentResponse(w) == to_coord'[w].type = "Response" /\ to_coord[w].type # "Response"

\* C14: a worker that answers with an error goes on to wait for its next
\* request; when the Coordinator handles the error Response the worker is
\* appended to the worker queue and, unless the handler is left by an
\* exception of its own before it forwards the reply, the client gets the
\* error and the worker's task is null; and a request is only ever
\* dispatched to a worker that waits for one.
C14_ErrorKeepsWorker ==
    [][\A w \in Workers :
         /\ (SentResponse(w) /\ to_coord'[w].reply.status = "error") =>
              (wpc'[w] = "recv" /\ to_coord'[w].addr = address[w])
         /\ (Handled(w, "Response") /\ to_coord[w].reply.status = "error") =>
              /\ worker_queue' = Append(worker_queue, w)
              /\ \/ /\ frontend_out'[to_coord[w].addr].status = "error"
                    /\ task'[w] = NullTask
                 \/ ThrewEarly
         /\ Dispatched(w) => (wpc[w] = "recv" /\ task[w] = NullTask)
      ]_vars

\* C14 witness: one worker alone served a request that failed and then a
\* second request, which it answers with ok.
C14_Witness ==
    \E w, other \in Workers :
        /\ other # w
        /\ wpc[other] = "start"
        /\ task[w].id = 2
        /\ to_coord[w].type = "Response"
        /\ to_coord[w].reply.status = "ok"
        /\ \E c \in Clients : frontend_out[c].status = "error"

\* C15 as stated: the Response of a Taint command and the changes it
\* appended, by the state of the worker's snapshot: an error and nothing
\* appended if the dataset is absent; ok and nothing appended if add finds
\* the tag or remove finds none; ok and exactly one ToggleTaint(dataset, tag)
\* otherwise.
C15_TaintNoOp ==
    [][\A w \in Workers :
         (SentResponse(w) /\ request[w].op \in {"taint_add", "taint_remove"}) =>
           LET ds == request[w].name
               has == <<ds, TaintTag>> \in snap[w].taints
               add == request[w].op = "taint_add"
               appended == SubSeq(task'[w].changes, Len(task[w].changes) + 1,
                                  Len(task'[w].changes))
               status == to_coord'[w].reply.status
           IN  /\ Len(task'[w].changes) >= Len(task[w].changes)
               /\ ds \notin snap[w].datasets =>
                    (status = "error" /\ appended = <<>>)
               /\ (ds \in snap[w].datasets /\ has = add) =>
                    (status = "ok" /\ appended = <<>>)
               /\ (ds \in snap[w].datasets /\ has # add) =>
                    /\ status = "ok"
                    /\ appended = <<Change("ToggleTaint", ds, TaintTag)>>
      ]_vars

\* C15 (amended): a Taint command on a dataset absent from the snapshot
\* answers with an error and appends nothing; where add finds the tag or
\* remove finds none, nothing is appended, whatever the answer; in the two
\* other cases an ok answer comes with exactly one ToggleTaint(dataset, tag)
\* appended, and an error answer (an allocation failed) with that one change
\* or with none.
C15_TaintNoOpUnlessOutOfMemory ==
    [][\A w \in Workers :
         (SentResponse(w) /\ request[w].op \in {"taint_add", "taint_remove"}) =>
           LET ds == request[w].name
               has == <<ds, TaintTag>> \in snap[w].taints
               add == request[w].op = "taint_add"
               appended == SubSeq(task'[w].changes, Len(task[w].changes) + 1,
                                  Len(task'[w].changes))
               toggle == <<Change("ToggleTaint", ds, TaintTag)>>
               reply == to_coord'[w].reply
           IN  /\ Len(task'[w].changes) >= Len(task[w].changes)
               /\ reply \in {Ok, Error}
               /\ ds \notin snap[w].datasets =>
                    (reply = Error /\ appended = <<>>)
               /\ (ds \in snap[w].datasets /\ has = add) => appended = <<>>
               /\ (ds \in snap[w].datasets /\ has # add) =>
                    /\ reply = Ok => appended = toggle
                    /\ reply = Error => appended \in {<<>>, toggle}
      ]_vars

\* C15 witness: a Taint(add) ran on a snapshot that already carries the tag
\* and answered ok with no change appended.
C15_Witness ==
    \E w \in Workers :
        /\ to_coord[w].type = "Response"
        /\ to_coord[w].reply.status = "ok"
        /\ task[w].id # 0
        /\ task[w].changes = <<>>
        /\ snap[w].locked_datasets = {}
        /\ <<"ds1", TaintTag>> \in snap[w].taints

\* The Coordinator read the backend message of worker w, or the request of
\* client c, in this step.
BackendHandled(w) == to_coord[w] # NoMsg /\ to_coord'[w] = NoMsg
FrontendRead(c) == frontend_in[c] # NoReq /\ frontend_in'[c] = NoReq

\* C16: an iteration of the loop goes from the poll to at most one backend
\* event and then at most one frontend event: a backend event is handled only
\* right after the poll, alone, and with its commit done in the same step; a
\* request is read only after the poll or after the backend event, alone, and
\* it ends the iteration; the loop never goes back from frontend to backend,
\* and it leaves this order only when the process ends.
C16_EventOrdering ==
    [][/\ \A w \in Workers :
            BackendHandled(w) =>
              /\ cpc = "backend" /\ revents[1]
              /\ Running' => cpc' = IF revents[2] THEN "frontend" ELSE "poll"
              /\ \A p \in Workers \ {w} : ~BackendHandled(p)
              /\ \A c \in Clients : ~FrontendRead(c)
              /\ to_coord[w].type = "Response" =>
                   (task'[w] = NullTask \/ ThrewEarly)
       /\ \A c \in Clients :
            FrontendRead(c) =>
              /\ cpc = "frontend" /\ revents[2]
              /\ Running' => cpc' = "poll"
              /\ \A d \in Clients \ {c} : ~FrontendRead(d)
       /\ cpc' # cpc =>
            \/ cpc = "poll" /\ cpc' \in {"backend", "frontend"}
            \/ cpc = "backend" /\ cpc' \in {"frontend", "poll"}
            \/ cpc = "frontend" /\ cpc' = "poll"
            \/ ~Running'
       /\ cpc = "backend" =>
            (cpc' = cpc => \A w \in Workers : ~BackendHandled(w))
      ]_vars

\* C16 witness: in one iteration the Response of the worker now at the tail
\* of the queue was handled, its task committed, and the frontend request
\* found by the same poll is about to be read.
C16_Witness ==
    /\ cpc = "frontend"
    /\ revents = <<TRUE, TRUE>>
    /\ Busy(task) = {}
    /\ worker_queue # <<>>
    /\ LET w == worker_queue[Len(worker_queue)]
       IN  snap[w].locked_datasets # {} \/ snap[w].locked_iterators # {}

\* C17: no two workers that both have a task hold a lock on the same dataset
\* or iterator; the lock records of workers without a task do not count in a
\* grant decision (a request that is answered is granted when no worker with
\* a task holds a dataset lock, or holds the requested iterator); and a
\* dispatch gives the worker a snapshot with an empty lock record.
C17_BusyMutualExclusion ==
    /\ [](\A w1, w2 \in Workers :
            (w1 # w2 /\ task[w1].id # 0 /\ task[w2].id # 0) =>
               /\ snap[w1].locked_datasets \cap snap[w2].locked_datasets = {}
               /\ snap[w1].locked_iterators \cap snap[w2].locked_iterators = {})
    /\ [][\A w \in Workers :
            /\ (Handled(w, "DatasetLockReq") /\ Answered(w)
                  /\ \A p \in Busy(task) : snap[p].locked_datasets = {}) =>
                 Granted(w)'
            /\ (Handled(w, "IteratorLockReq") /\ Answered(w)
                  /\ \A p \in Busy(task) :
                        to_coord[w].name \notin snap[p].locked_iterators) =>
                 Granted(w)'
            /\ Dispatched(w) =>
                 /\ snap'[w].locked_datasets = {}
                 /\ snap'[w].locked_iterators = {}
       ]_vars

\* C17 witness: a worker is granted the lock on ds1 while the snapshot of a
\* worker without a task still records a lock on ds1.
C17_Witness ==
    \E w, p \in Workers :
        /\ p # w
        /\ task[p].id = 0
        /\ "ds1" \in snap[p].locked_datasets
        /\ Granted(w)
        /\ request[w].op = "reindex" /\ request[w].name = "ds1"
        /\ "ds1" \in snap[w].locked_datasets

\* C18, for runs in which every Taint command is an add of TaintTag on ds1
\* (SpecTaintAdd): the commit of a task that appended a ToggleTaint leaves ds1
\* carrying the tag, and the tag, once published, is never taken away again;
\* so after two such tasks are committed ds1 carries the tag.
C18_TaintAddsConverge ==
    [][/\ \A w \in Workers :
            (Handled(w, "Response") /\ task'[w] = NullTask
                  /\ task[w].changes # <<>>) =>
               <<"ds1", TaintTag>> \in db'.taints
       /\ <<"ds1", TaintTag>> \in db.taints => <<"ds1", TaintTag>> \in db'.taints
      ]_vars

\* C19: handling a lock request changes neither the worker queue, nor a
\* task, nor the database; the request is answered LockDenied or LockOk
\* unless the handler throws and the process ends, which leaves every
\* snapshot as it was; a denied request leaves every snapshot as it was;
\* a granted request records all the requested names on the requester's
\* snapshot and leaves the other snapshots, and what the requester's
\* snapshot shows of the database, as they were.
C19_LockRequestFrame ==
    [][\A w \in Workers :
         (Handled(w, "DatasetLockReq") \/ Handled(w, "IteratorLockReq")) =>
           /\ worker_queue' = worker_queue
           /\ task' = task
           /\ db' = db /\ files' = files /\ last_task_id' = last_task_id
           /\ frontend_out' = frontend_out
           /\ Answered(w) \/ (~Running' /\ snap' = snap)
           /\ Denied(w)' => snap' = snap
           /\ Granted(w)' =>
                /\ \A p \in Workers \ {w} : snap'[p] = snap[p]
                /\ View(snap'[w]) = View(snap[w])
                /\ snap[w].locked_datasets \subseteq snap'[w].locked_datasets
                /\ snap[w].locked_iterators \subseteq snap'[w].locked_iterators
                /\ Handled(w, "DatasetLockReq") =>
                     to_coord[w].names \subseteq snap'[w].locked_datasets
                /\ Handled(w, "IteratorLockReq") =>
                     to_coord[w].name \in snap'[w].locked_iterators
      ]_vars

\* C19 witness: a reindex was denied its dataset lock and the requester's
\* snapshot records no lock at all.
C19_Witness ==
    \E w \in Workers :
        /\ Denied(w)
        /\ request[w].op = "reindex"
        /\ snap[w].locked_datasets = {}
        /\ snap[w].locked_iterators = {}
        /\ \E p \in Busy(task) \ {w} : snap[p].locked_datasets # {}

\* C20: a dispatch goes to a queued worker whose task is null and gives it
\* a task with an id never used before, leaving the other workers' tasks
\* alone; a Response is handled (and commit_task called, unless the handler
\* is left by an exception before) only for a worker that has a task; a
\* worker's task goes away only in that step; and no two workers ever hold
\* tasks with the same id.
C20_TaskOwnership ==
    /\ [](\A w1, w2 \in Busy(task) : w1 # w2 => task[w1].id # task[w2].id)
    /\ [](\A w \in Workers : task[w].id <= last_task_id)
    /\ [][\A w \in Workers :
            /\ Dispatched(w) =>
                 /\ task[w] = NullTask
                 /\ InQueue(w)
                 /\ task'[w].id = last_task_id + 1
                 /\ last_task_id' = last_task_id + 1
                 /\ \A p \in Workers \ {w} :
                       task'[p] = task[p] /\ snap'[p] = snap[p]
            /\ Handled(w, "Response") =>
                 (task[w].id # 0 /\ (task'[w] = NullTask \/ ThrewEarly))
            /\ (task[w].id # 0 /\ task'[w].id # task[w].id) =>
                 Handled(w, "Response")
            /\ (task[w].id = 0 /\ (task'[w] # task[w] \/ snap'[w] # snap[w])) =>
                 Dispatched(w)
       ]_vars

\* C20 witness: a worker that served and committed the first task alone has
\* been given the second task.
C20_Witness ==
    \E w, other \in Workers :
        /\ other # w
        /\ wpc[other] = "start"
        /\ task[w].id = 2
        /\ to_worker[w].type = "request"
        /\ \E c \in Clients : frontend_out[c] # NoReply

====
